---- MODULE Spec2Model ----
(***************************************************************************)
(* A model of the keel service (package keel, Service) and of the store    *)
(* contracts it depends on (package store).                                 *)
(*                                                                         *)
(*   Spec       one webhook request at a time: handleGithubWebhook,         *)
(*              processPushEvent and RunJob, with RunJob's two goroutines   *)
(*              (the yaml decoder and the template renderer) interleaved    *)
(*              step by step around the io.Pipe and the shared err.         *)
(*   FairSpec   Spec with weak fairness of the three threads of control     *)
(*              (Go's scheduler runs every runnable goroutine).             *)
(*   TwiceSpec  Spec where RunJob's compile step may be run a second time  *)
(*              on the same template and JobContext.                        *)
(*   JobsSpec   the executor's OnUpdate callback and the Jobs store.        *)
(*   FairJobsSpec  JobsSpec with weak fairness of the event delivery.       *)
(*   ListSpec   ListJobs over Jobs.Find, from every content of the store.   *)
(*   LogsSpec   the Logs store: Place and Read.                             *)
(***************************************************************************)
EXTENDS Naturals, Sequences, FiniteSets

VARIABLES
    \* ---- handleGithubWebhook ----
    hpc,        \* position of the handler
    herr,       \* the handler's local `err`
    event,      \* the parsed event's kind
    resp,       \* what the handler wrote to the http.ResponseWriter
    onErr,      \* the errors handed to srv.OnError while serving this request
    \* ---- RunJob ----
    pc,         \* position of RunJob's own goroutine
    jc,         \* the JobContext
    repoCfg,    \* the decoded RepoConfig
    tpl,        \* the parsed template (what executing and decoding it will do)
    err,        \* RunJob's named result `err`: an interface value, two words
    podspec,    \* the corev1.PodSpec the decoder fills in
    wg,         \* the sync.WaitGroup's counter
    pipe,       \* io.Pipe: bytes of the pending Write not yet read
    rpc,        \* position of the render goroutine
    nwritten,   \* number of pw.Write calls that have returned
    rterr,      \* the render goroutine's `terr`
    rpend,      \* words of `err` the render goroutine has still to store
    dpc,        \* position of the decode goroutine
    consumed,   \* bytes the decoder has read from the pipe
    dterr,      \* the decode goroutine's `terr`
    dpend,      \* words of `err` the decode goroutine has still to store
    firstFail,  \* history: which unit's failure came first
    errWriters, \* history: the goroutines that have assigned to `err`
    startCall,  \* the call to Executor.Start: its arguments and its result
    ret,        \* what RunJob returned
    trace,      \* history: the steps RunJob has taken, in order
    prev,       \* the outcome of an earlier compilation of the same template
    \* ---- executor callback and stores ----
    inflight,   \* the status OnUpdate is emitting on srv.events, if any
    jobs,       \* the Jobs store: name -> stored record
    stored,     \* history: name -> the record last handed to Jobs.Store
    lastGet,    \* the result of the last Jobs.Get
    lastList,   \* the last ListJobs call: its request and what it returned
    logs,       \* the Logs store: id -> readable blob
    placing,    \* the Place call in progress, if any
    placed,     \* history: id -> the bytes handed to a Place that returned nil
    lastRead    \* the result of the last Logs.Read

hvars == <<hpc, herr, event, resp, onErr>>
cvars == <<err, podspec, wg, pipe, rpc, nwritten, rterr, rpend,
           dpc, consumed, dterr, dpend, firstFail, errWriters>>
rvars == <<pc, jc, repoCfg, tpl, startCall, ret, trace>>
jvars == <<inflight, jobs, stored, lastGet, lastList>>
lvars == <<logs, placing, placed, lastRead>>
svars == <<jvars, lvars, prev>>
vars == <<hvars, rvars, cvars, svars>>

----------------------------------------------------------------------------
\* Bounds of the model.

\* most pw.Write calls one template execution makes
MaxWrites == 2
\* most bytes one pw.Write carries
MaxWriteLen == 2
\* bytes one pr.Read of the decoder takes at most
ReadBufLen == 1

\* net/http's StatusInternalServerError, the code http.Error is called with
StatusInternalServerError == 500

Owners == {"acme"}
Repos == {"widgets"}
Revisions == {"refs/heads/main", "refs/heads/dev"}
Paths == {"", "build.yaml.tpl"}
JobNames == {"job-1", "job-2"}
Phases == {"running", "done"}
LogIds == {"job-1", "job-2"}
Bytes == {"a", "b"}
\* most bytes of one log blob
MaxBlobLen == 2
\* largest start and largest limit of a ListJobs request
MaxStart == 2
MaxLimit == 2

\* the event types github.ParseWebHook can yield; the first three have a
\* case in the handler's switch
HandledKinds == {"commit_comment", "create", "push"}
Kinds == HandledKinds \cup {"fork"}

----------------------------------------------------------------------------
\* Errors. An error is an interface value of two words, typ and data;
\* it is nil when its typ word is nil.

Err(c) == [typ |-> c, data |-> c]
NilErr == Err("nil")
IsNil(e) == e.typ = "nil"

\* JobContext.String(): the descriptor of the repository and revision
JcString(c) == <<c.Owner, c.Repo, c.Revision>>

\* Wrap with a bug: the cause is returned as it is, without the descriptor
Wrap_Bare(c, cause) == cause

\* xerrors.Errorf("cannot handle push to %s: %w", jc.String(), err)
Wrap(c, cause) ==
    [typ |-> "cannot handle push to", data |-> "cannot handle push to",
     desc |-> JcString(c), cause |-> cause]

\* UnhandledErr with a bug: the default case leaves err nil
UnhandledErr_Silent(kind) == NilErr

\* xerrors.Errorf("unhandled GitHub event: %+v", event)
UnhandledErr(kind) ==
    [typ |-> "unhandled GitHub event", data |-> "unhandled GitHub event",
     event |-> kind]

NoJc == [Owner |-> "", Repo |-> "", Revision |-> ""]
NoResp == [written |-> FALSE, code |-> 0, body |-> NilErr]
NoRet == [done |-> FALSE, name |-> "", err |-> NilErr]
NoStart == [called |-> FALSE]

----------------------------------------------------------------------------
\* Templates. What a parsed template does when executed against jc and what
\* the yaml decoder does with the bytes: Execute makes the writes in
\* `writes` and then returns nil (renderOK) or an error; Decode returns once
\* it has read `need` bytes, with nil (decodeOK) or an error. A document
\* whose end the decoder can only tell from the end of the stream has
\* need = Sum(writes) + 1; one that is followed by more output (a second
\* document, say) or that is malformed early has need <= Sum(writes).

RECURSIVE Sum(_)
Sum(s) == IF s = <<>> THEN 0 ELSE Head(s) + Sum(Tail(s))

SeqsUpTo(S, n) == UNION {[1..k -> S] : k \in 0..n}

Templates ==
    UNION {
        {[writes |-> w, renderOK |-> r, need |-> nd, decodeOK |-> d] :
            r \in BOOLEAN, nd \in 1..(Sum(w) + 1), d \in BOOLEAN}
        : w \in SeqsUpTo(1..MaxWriteLen, MaxWrites)}

NoTpl == [writes |-> <<>>, renderOK |-> TRUE, need |-> 1, decodeOK |-> TRUE]

\* the PodSpec that decoding the complete rendering of t against c yields
DecodeYAML(t, c) == [from |-> t.writes, ctx |-> JcString(c)]
ZeroPodSpec == [from |-> <<>>, ctx |-> <<>>]
\* what a Decode that fails half way leaves in the PodSpec
PartialPodSpec == [from |-> <<>>, ctx |-> <<"partial">>]

Min(a, b) == IF a < b THEN a ELSE b

----------------------------------------------------------------------------
\* RepoConfig

\* func (rc *RepoConfig) TemplatePath(trigger JobTrigger) string
TemplatePath(rc, trigger) == rc.DefaultJob

\* func (rc *RepoConfig) ShouldRun(trigger JobTrigger) bool
ShouldRun(rc, trigger) == TRUE

NoCfg == [DefaultJob |-> ""]

\* the annotations RunJob hands to executor.WithAnnotations
Annotations(c) == [owner |-> c.Owner, repo |-> c.Repo, rev |-> c.Revision]

----------------------------------------------------------------------------
Init ==
    /\ hpc = "idle" /\ herr = NilErr /\ event = "none"
    /\ resp = NoResp /\ onErr = <<>>
    /\ pc = "idle" /\ jc = NoJc /\ repoCfg = NoCfg /\ tpl = NoTpl
    /\ err = NilErr /\ podspec = ZeroPodSpec /\ wg = 0 /\ pipe = 0
    /\ rpc = "idle" /\ nwritten = 0 /\ rterr = NilErr /\ rpend = {}
    /\ dpc = "idle" /\ consumed = 0 /\ dterr = NilErr /\ dpend = {}
    /\ firstFail = "none" /\ errWriters = {}
    /\ startCall = NoStart /\ ret = NoRet /\ trace = <<>> /\ prev = <<>>
    /\ inflight = <<>> /\ jobs = <<>> /\ stored = <<>>
    /\ lastGet = <<>> /\ lastList = <<>>
    /\ logs = <<>> /\ placing = <<>> /\ placed = <<>> /\ lastRead = <<>>

----------------------------------------------------------------------------
\* handleGithubWebhook

\* A request arrives: the handler starts with err = nil and its deferred
\* function registered. Everything local to the previous request is gone.
ReceiveWebhook ==
    /\ hpc \in {"idle", "done"}
    /\ hpc' = "validate"
    /\ herr' = NilErr /\ event' = "none" /\ resp' = NoResp /\ onErr' = <<>>
    /\ pc' = "idle" /\ jc' = NoJc /\ repoCfg' = NoCfg /\ tpl' = NoTpl
    /\ err' = NilErr /\ podspec' = ZeroPodSpec /\ wg' = 0 /\ pipe' = 0
    /\ rpc' = "idle" /\ nwritten' = 0 /\ rterr' = NilErr /\ rpend' = {}
    /\ dpc' = "idle" /\ consumed' = 0 /\ dterr' = NilErr /\ dpend' = {}
    /\ firstFail' = "none" /\ errWriters' = {}
    /\ startCall' = NoStart /\ ret' = NoRet /\ trace' = <<>> /\ prev' = <<>>
    /\ UNCHANGED <<jvars, lvars>>

\* payload, err := github.ValidatePayload(r, srv.GitHub.WebhookSecret)
ValidatePayload ==
    /\ hpc = "validate"
    /\ \E ok \in BOOLEAN :
        /\ herr' = IF ok THEN NilErr ELSE Err("invalid payload")
        /\ hpc' = IF ok THEN "parse" ELSE "deferred"
    /\ UNCHANGED <<event, resp, onErr, rvars, cvars, svars>>

\* event, err := github.ParseWebHook(github.WebHookType(r), payload)
ParseWebHook ==
    /\ hpc = "parse"
    /\ \/ /\ herr' = Err("cannot parse webhook")
          /\ hpc' = "deferred"
          /\ UNCHANGED event
       \/ \E k \in Kinds :
          /\ event' = k
          /\ herr' = NilErr
          /\ hpc' = "switch"
    /\ UNCHANGED <<resp, onErr, rvars, cvars, svars>>

\* switch event := event.(type): the comment and create cases do nothing,
\* the push case calls processPushEvent, which builds the JobContext from
\* the event and calls RunJob; the default case sets err.
DispatchEvent ==
    /\ hpc = "switch"
    /\ IF event \in {"commit_comment", "create"}
       THEN /\ hpc' = "deferred"
            /\ UNCHANGED <<herr, pc, jc>>
       ELSE IF event = "push"
       THEN /\ \E o \in Owners, r \in Repos, v \in Revisions :
                jc' = [Owner |-> o, Repo |-> r, Revision |-> v]
            /\ pc' = "fetchConfig"
            /\ hpc' = "push"
            /\ UNCHANGED herr
       ELSE /\ herr' = UnhandledErr(event)
            /\ hpc' = "deferred"
            /\ UNCHANGED <<pc, jc>>
    /\ UNCHANGED <<event, resp, onErr, repoCfg, tpl, startCall, ret, trace,
                   cvars, svars>>

\* (a variant that also hands RunJob's error to the handler's err)
PushEventReturn_Propagates ==
    /\ hpc = "push" /\ pc = "returned"
    /\ onErr' = IF IsNil(ret.err) THEN onErr ELSE Append(onErr, ret.err)
    /\ herr' = ret.err
    /\ hpc' = "deferred"
    /\ pc' = "idle"
    /\ UNCHANGED <<event, resp, jc, repoCfg, tpl, startCall, ret, trace,
                   cvars, svars>>

\* processPushEvent after RunJob has returned:
\* _, err := srv.RunJob(...); if err != nil { srv.OnError(err) }
\* This err is processPushEvent's own; the handler's err is not assigned.
PushEventReturn ==
    /\ hpc = "push" /\ pc = "returned"
    /\ onErr' = IF IsNil(ret.err) THEN onErr ELSE Append(onErr, ret.err)
    /\ hpc' = "deferred"
    /\ pc' = "idle"
    /\ UNCHANGED <<herr, event, resp, jc, repoCfg, tpl, startCall, ret, trace,
                   cvars, svars>>

\* the deferred function, run as the handler returns
Deferred ==
    /\ hpc = "deferred"
    /\ IF IsNil(herr)
       THEN UNCHANGED <<resp, onErr>>
       ELSE /\ onErr' = Append(onErr, herr)
            /\ resp' = [written |-> TRUE, code |-> StatusInternalServerError,
                        body |-> herr]
    /\ hpc' = "done"
    /\ UNCHANGED <<herr, event, rvars, cvars, svars>>

----------------------------------------------------------------------------
\* RunJob, its own goroutine

\* return n, e
Return(n, e) ==
    /\ ret' = [done |-> TRUE, name |-> n, err |-> e]
    /\ pc' = "returned"

\* return "", xerrors.Errorf("cannot handle push to %s: %w", jc.String(), err)
ReturnErr(cause) == Return("", Wrap(jc, cause))

\* keelYAML, err := fp(".keep.yaml")
FetchConfig ==
    /\ pc = "fetchConfig"
    /\ trace' = Append(trace, "fetchConfig")
    /\ \E ok \in BOOLEAN :
        IF ok
        THEN /\ err' = NilErr
             /\ pc' = "decodeConfig"
             /\ UNCHANGED ret
        ELSE /\ err' = Err("fetch config")
             /\ ReturnErr(err')
    /\ UNCHANGED <<hvars, jc, repoCfg, tpl, startCall, svars>>
    /\ UNCHANGED <<podspec, wg, pipe, rpc, nwritten, rterr, rpend,
                   dpc, consumed, dterr, dpend, firstFail, errWriters>>

\* err = yaml.NewDecoder(keelYAML).Decode(&repoCfg)
DecodeConfig ==
    /\ pc = "decodeConfig"
    /\ trace' = Append(trace, "decodeConfig")
    /\ \/ /\ err' = Err("decode config")
          /\ ReturnErr(err')
          /\ UNCHANGED repoCfg
       \/ \E p \in Paths :
          /\ repoCfg' = [DefaultJob |-> p]
          /\ err' = NilErr
          /\ pc' = "shouldRun"
          /\ UNCHANGED ret
    /\ UNCHANGED <<hvars, jc, tpl, startCall, svars>>
    /\ UNCHANGED <<podspec, wg, pipe, rpc, nwritten, rterr, rpend,
                   dpc, consumed, dterr, dpend, firstFail, errWriters>>

\* if !repoCfg.ShouldRun(JobTriggerPush) { return }
CheckShouldRun ==
    /\ pc = "shouldRun"
    /\ trace' = Append(trace, "shouldRun")
    /\ IF ~ShouldRun(repoCfg, "push")
       THEN Return("", err)
       ELSE /\ pc' = "fetchTemplate"
            /\ UNCHANGED ret
    /\ UNCHANGED <<hvars, jc, repoCfg, tpl, startCall, cvars, svars>>

\* tplpth := repoCfg.TemplatePath(JobTriggerPush); jobTplYAML, err := fp(tplpth)
FetchTemplate ==
    /\ pc = "fetchTemplate"
    /\ trace' = Append(trace, "fetchTemplate")
    /\ \E ok \in BOOLEAN :
        IF ok
        THEN /\ err' = NilErr
             /\ pc' = "readTemplate"
             /\ UNCHANGED ret
        ELSE /\ err' = [typ |-> "fetch template", data |-> TemplatePath(repoCfg, "push")]
             /\ ReturnErr(err')
    /\ UNCHANGED <<hvars, jc, repoCfg, tpl, startCall, svars>>
    /\ UNCHANGED <<podspec, wg, pipe, rpc, nwritten, rterr, rpend,
                   dpc, consumed, dterr, dpend, firstFail, errWriters>>

\* jobTplRaw, err := ioutil.ReadAll(jobTplYAML)
ReadTemplate ==
    /\ pc = "readTemplate"
    /\ trace' = Append(trace, "readTemplate")
    /\ \E ok \in BOOLEAN :
        IF ok
        THEN /\ err' = NilErr
             /\ pc' = "parseTemplate"
             /\ UNCHANGED ret
        ELSE /\ err' = Err("read template")
             /\ ReturnErr(err')
    /\ UNCHANGED <<hvars, jc, repoCfg, tpl, startCall, svars>>
    /\ UNCHANGED <<podspec, wg, pipe, rpc, nwritten, rterr, rpend,
                   dpc, consumed, dterr, dpend, firstFail, errWriters>>

\* jobTpl, err := template.New("job").Funcs(sprig.FuncMap()).Parse(...)
ParseTemplate ==
    /\ pc = "parseTemplate"
    /\ trace' = Append(trace, "parseTemplate")
    /\ \/ /\ err' = Err("parse template")
          /\ ReturnErr(err')
          /\ UNCHANGED tpl
       \/ \E t \in Templates :
          /\ tpl' = t
          /\ err' = NilErr
          /\ pc' = "spawn"
          /\ UNCHANGED ret
    /\ UNCHANGED <<hvars, jc, repoCfg, startCall, svars>>
    /\ UNCHANGED <<podspec, wg, pipe, rpc, nwritten, rterr, rpend,
                   dpc, consumed, dterr, dpend, firstFail, errWriters>>

\* pr, pw := io.Pipe(); wg.Add(2); go func() {decode}(); go func() {render}()
SpawnCompile ==
    /\ pc = "spawn"
    /\ trace' = Append(trace, "compile")
    /\ pipe' = 0
    /\ wg' = 2
    /\ dpc' = "read"
    /\ rpc' = "exec"
    /\ pc' = "wait"
    /\ UNCHANGED <<hvars, jc, repoCfg, tpl, startCall, ret, svars>>
    /\ UNCHANGED <<err, podspec, nwritten, rterr, rpend,
                   consumed, dterr, dpend, firstFail, errWriters>>

\* wg.Wait(); if err != nil { return "", xerrors.Errorf(...) }
\* The comparison with nil looks at the typ word of err.
WaitAndCheck ==
    /\ pc = "wait"
    /\ UNCHANGED trace
    /\ wg = 0
    /\ IF ~IsNil(err)
       THEN ReturnErr(err)
       ELSE /\ pc' = "start"
            /\ UNCHANGED ret
    /\ UNCHANGED <<hvars, jc, repoCfg, tpl, startCall, cvars, svars>>

\* (a variant that also writes the started job to the Jobs store)
ExecutorStart_Stores ==
    /\ pc = "start"
    /\ trace' = Append(trace, "start")
    /\ \E n \in JobNames \cup {""} :
        /\ startCall' = [called |-> TRUE, spec |-> podspec,
                         annotations |-> Annotations(jc), name |-> n]
        /\ IF n = ""
           THEN /\ err' = Err("executor start")
                /\ ReturnErr(err')
                /\ UNCHANGED jobs
           ELSE /\ err' = NilErr
                /\ Return(n, NilErr)
                /\ jobs' = [x \in DOMAIN jobs \cup {n} |->
                              IF x = n
                              THEN [name |-> n, phase |-> "running",
                                    annotations |-> Annotations(jc)]
                              ELSE jobs[x]]
    /\ UNCHANGED <<hvars, jc, repoCfg, tpl, lvars, prev>>
    /\ UNCHANGED <<inflight, stored, lastGet, lastList>>
    /\ UNCHANGED <<podspec, wg, pipe, rpc, nwritten, rterr, rpend,
                   dpc, consumed, dterr, dpend, firstFail, errWriters>>

\* name, err = srv.Executor.Start(podspec, executor.WithAnnotations(...))
\* if err != nil { return "", xerrors.Errorf(...) }; return name, nil
ExecutorStart ==
    /\ pc = "start"
    /\ trace' = Append(trace, "start")
    /\ \E n \in JobNames \cup {""} :
        /\ startCall' = [called |-> TRUE, spec |-> podspec,
                         annotations |-> Annotations(jc), name |-> n]
        /\ IF n = ""
           THEN /\ err' = Err("executor start")
                /\ ReturnErr(err')
           ELSE /\ err' = NilErr
                /\ Return(n, NilErr)
    /\ UNCHANGED <<hvars, jc, repoCfg, tpl, svars>>
    /\ UNCHANGED <<podspec, wg, pipe, rpc, nwritten, rterr, rpend,
                   dpc, consumed, dterr, dpend, firstFail, errWriters>>

----------------------------------------------------------------------------
\* RunJob, the render goroutine: terr := jobTpl.Execute(pw, jc)

\* Execute calls pw.Write; the call blocks until every byte has been read
RenderWrite ==
    /\ rpc = "exec"
    /\ nwritten < Len(tpl.writes)
    /\ pipe' = tpl.writes[nwritten + 1]
    /\ rpc' = "write"
    /\ UNCHANGED <<hvars, rvars, svars>>
    /\ UNCHANGED <<err, podspec, wg, nwritten, rterr, rpend,
                   dpc, consumed, dterr, dpend, firstFail, errWriters>>

\* pw.Write returns: the reader has taken all of its bytes
RenderWriteReturn ==
    /\ rpc = "write"
    /\ pipe = 0
    /\ nwritten' = nwritten + 1
    /\ rpc' = "exec"
    /\ UNCHANGED <<hvars, rvars, svars>>
    /\ UNCHANGED <<err, podspec, wg, pipe, rterr, rpend,
                   dpc, consumed, dterr, dpend, firstFail, errWriters>>

\* Execute returns, with nil or with the template's failure
RenderExecuteReturn ==
    /\ rpc = "exec"
    /\ nwritten = Len(tpl.writes)
    /\ rterr' = IF tpl.renderOK THEN NilErr ELSE Err("template")
    /\ firstFail' = IF ~tpl.renderOK /\ firstFail = "none"
                    THEN "template" ELSE firstFail
    /\ rpc' = "check"
    /\ UNCHANGED <<hvars, rvars, svars>>
    /\ UNCHANGED <<err, podspec, wg, pipe, nwritten, rpend,
                   dpc, consumed, dterr, dpend, errWriters>>

\* if err != nil {     (the shared err, not terr)
RenderCheckErr ==
    /\ rpc = "check"
    /\ IF ~IsNil(err)
       THEN /\ rpc' = "store"
            /\ rpend' = {"typ", "data"}
       ELSE /\ rpc' = "exit"
            /\ UNCHANGED rpend
    /\ UNCHANGED <<hvars, rvars, svars>>
    /\ UNCHANGED <<err, podspec, wg, pipe, nwritten, rterr,
                   dpc, consumed, dterr, dpend, firstFail, errWriters>>

\* err = terr: the two words of the interface value are stored one by one,
\* unsynchronised with the other goroutine
RenderStoreErr ==
    /\ rpc = "store"
    /\ \E w \in rpend :
        /\ err' = [err EXCEPT ![w] = rterr[w]]
        /\ rpend' = rpend \ {w}
        /\ rpc' = IF rpend' = {} THEN "exit" ELSE "store"
    /\ errWriters' = errWriters \cup {"render"}
    /\ UNCHANGED <<hvars, rvars, svars>>
    /\ UNCHANGED <<podspec, wg, pipe, nwritten, rterr,
                   dpc, consumed, dterr, dpend, firstFail>>

\* defer wg.Done()
RenderDone ==
    /\ rpc = "exit"
    /\ wg' = wg - 1
    /\ rpc' = "done"
    /\ UNCHANGED <<hvars, rvars, svars>>
    /\ UNCHANGED <<err, podspec, pipe, nwritten, rterr, rpend,
                   dpc, consumed, dterr, dpend, firstFail, errWriters>>

----------------------------------------------------------------------------
\* RunJob, the decode goroutine: terr := yaml.NewDecoder(pr).Decode(&podspec)

\* the decoder's pr.Read: blocks until a Write is pending, takes up to
\* ReadBufLen of its bytes; the decoder stops reading once it has what it
\* needs
DecodeRead ==
    /\ dpc = "read"
    /\ pipe > 0
    /\ LET k == Min(pipe, ReadBufLen) IN
        /\ pipe' = pipe - k
        /\ consumed' = consumed + k
        /\ dpc' = IF consumed + k >= tpl.need THEN "return" ELSE "read"
    /\ UNCHANGED <<hvars, rvars, svars>>
    /\ UNCHANGED <<err, podspec, wg, rpc, nwritten, rterr, rpend,
                   dterr, dpend, firstFail, errWriters>>

\* Decode returns; if terr != nil {
DecodeReturn ==
    /\ dpc = "return"
    /\ dterr' = IF tpl.decodeOK THEN NilErr ELSE Err("yaml")
    /\ IF tpl.decodeOK
       THEN podspec' = DecodeYAML(tpl, jc)
       ELSE podspec' \in {ZeroPodSpec, PartialPodSpec}
    /\ firstFail' = IF ~tpl.decodeOK /\ firstFail = "none"
                    THEN "yaml" ELSE firstFail
    /\ IF ~tpl.decodeOK
       THEN /\ dpc' = "store"
            /\ dpend' = {"typ", "data"}
       ELSE /\ dpc' = "exit"
            /\ UNCHANGED dpend
    /\ UNCHANGED <<hvars, rvars, svars>>
    /\ UNCHANGED <<err, wg, pipe, rpc, nwritten, rterr, rpend, consumed,
                   errWriters>>

\* err = terr
DecodeStoreErr ==
    /\ dpc = "store"
    /\ \E w \in dpend :
        /\ err' = [err EXCEPT ![w] = dterr[w]]
        /\ dpend' = dpend \ {w}
        /\ dpc' = IF dpend' = {} THEN "exit" ELSE "store"
    /\ errWriters' = errWriters \cup {"decode"}
    /\ UNCHANGED <<hvars, rvars, svars>>
    /\ UNCHANGED <<podspec, wg, pipe, rpc, nwritten, rterr, rpend,
                   consumed, dterr, firstFail>>

\* defer wg.Done()
DecodeDone ==
    /\ dpc = "exit"
    /\ wg' = wg - 1
    /\ dpc' = "done"
    /\ UNCHANGED <<hvars, rvars, svars>>
    /\ UNCHANGED <<err, podspec, pipe, rpc, nwritten, rterr, rpend,
                   consumed, dterr, dpend, firstFail, errWriters>>

----------------------------------------------------------------------------
HandlerStep ==
    \/ ValidatePayload \/ ParseWebHook \/ DispatchEvent
    \/ PushEventReturn \/ Deferred

RunJobStep ==
    \/ FetchConfig \/ DecodeConfig \/ CheckShouldRun \/ FetchTemplate
    \/ ReadTemplate \/ ParseTemplate \/ SpawnCompile \/ WaitAndCheck
    \/ ExecutorStart

RenderStep ==
    \/ RenderWrite \/ RenderWriteReturn \/ RenderExecuteReturn
    \/ RenderCheckErr \/ RenderStoreErr \/ RenderDone

DecodeStep ==
    \/ DecodeRead \/ DecodeReturn \/ DecodeStoreErr \/ DecodeDone

Next ==
    \/ ReceiveWebhook
    \/ HandlerStep
    \/ RunJobStep
    \/ RenderStep
    \/ DecodeStep

Spec == Init /\ [][Next]_vars

\* Every goroutine that can take a step eventually takes one.
FairSpec ==
    /\ Spec
    /\ WF_vars(HandlerStep \/ RunJobStep)
    /\ WF_vars(RenderStep)
    /\ WF_vars(DecodeStep)

----------------------------------------------------------------------------
\* The compile step (pipe, two goroutines, wg.Wait and the check of err), run
\* a second time on the same template and JobContext

\* wg.Wait() has been passed and err checked: RunJob is about to call
\* Executor.Start, or has returned the compile's error
CompileDone ==
    /\ pc \in {"start", "returned"}
    /\ trace # <<>>
    /\ trace[Len(trace)] = "compile"

\* what the compile step leaves: the podspec handed on to Executor.Start,
\* or the error returned
Outcome ==
    IF pc = "start"
    THEN [ok |-> TRUE, spec |-> podspec, err |-> NilErr]
    ELSE [ok |-> FALSE, spec |-> ZeroPodSpec, err |-> ret.err]

\* the first compile's outcome is kept in prev; a fresh pipe, podspec,
\* WaitGroup and err, and the same jobTpl and jc
CompileAgain ==
    /\ CompileDone
    /\ prev = <<>>
    /\ prev' = <<Outcome>>
    /\ pc' = "spawn"
    /\ ret' = NoRet
    /\ err' = NilErr /\ podspec' = ZeroPodSpec /\ wg' = 0 /\ pipe' = 0
    /\ rpc' = "idle" /\ nwritten' = 0 /\ rterr' = NilErr /\ rpend' = {}
    /\ dpc' = "idle" /\ consumed' = 0 /\ dterr' = NilErr /\ dpend' = {}
    /\ firstFail' = "none" /\ errWriters' = {}
    /\ UNCHANGED <<hvars, jc, repoCfg, tpl, startCall, trace, jvars, lvars>>

TwiceNext ==
    \/ Next
    \/ CompileAgain

TwiceSpec == Init /\ [][TwiceNext]_vars

----------------------------------------------------------------------------
\* The executor's callback and the Jobs store

\* v1.JobStatus
JobStatuses ==
    [name : JobNames, phase : Phases,
     annotations : {Annotations([Owner |-> o, Repo |-> r, Revision |-> v]) :
                        o \in Owners, r \in Repos, v \in Revisions}]

\* srv.Executor.OnUpdate(s): srv.events.Emit(fmt.Sprintf("job.%s", s.Name), s)
OnUpdateEmit ==
    /\ inflight = <<>>
    /\ \E s \in JobStatuses : inflight' = <<s>>
    /\ UNCHANGED <<jobs, stored, lastGet, lastList, hvars, rvars, cvars, lvars, prev>>

\* <-done: the event has been handed to every listener on srv.events, and
\* OnUpdate returns. The service registers no listener (there is no call of
\* srv.events.On), and OnUpdate itself does not call srv.Jobs.Store.
OnUpdateDelivered ==
    /\ inflight # <<>>
    /\ inflight' = <<>>
    /\ UNCHANGED <<jobs, stored, lastGet, lastList, hvars, rvars, cvars, lvars, prev>>

\* StoreJob with a bug: a record that is already stored keeps its
\* annotations, only the other fields are overwritten
StoreJob_Merge(js, job) ==
    [n \in DOMAIN js \cup {job.name} |->
        IF n # job.name THEN js[n]
        ELSE IF n \in DOMAIN js
        THEN [job EXCEPT !.annotations = js[n].annotations]
        ELSE job]

\* Jobs.Store(ctx, job), called by a client of the store: an upsert by name
StoreJob(js, job) ==
    [n \in DOMAIN js \cup {job.name} |-> IF n = job.name THEN job ELSE js[n]]

\* `stored` keeps (history) the record of the last Store call per name, and
\* whether that call came upon a different record under the name
JobsStore ==
    /\ \E job \in JobStatuses :
        /\ jobs' = StoreJob(jobs, job)
        /\ stored' = [n \in DOMAIN stored \cup {job.name} |->
                        IF n # job.name THEN stored[n]
                        ELSE [job |-> job,
                              over |-> n \in DOMAIN stored /\ stored[n].job # job]]
    /\ UNCHANGED <<inflight, lastGet, lastList, hvars, rvars, cvars, lvars, prev>>

\* Jobs.Get(ctx, name): the record, or ErrNotFound
GetJob(js, name) ==
    IF name \in DOMAIN js
    THEN [name |-> name, found |-> TRUE, job |-> js[name]]
    ELSE [name |-> name, found |-> FALSE]

\* lastGet also records (history) the last Store call for the name
JobsGet ==
    /\ \E n \in JobNames :
        lastGet' = <<[res |-> GetJob(jobs, n),
                      stored |-> IF n \in DOMAIN stored THEN <<stored[n]>> ELSE <<>>]>>
    /\ UNCHANGED <<inflight, jobs, stored, lastList, hvars, rvars, cvars, lvars, prev>>

\* Jobs.Find(ctx, filter, start, limit). The filters are ANDed, an empty
\* filter matches every record; the matches are listed by name.
Filters == SUBSET {[key |-> "rev", value |-> v] : v \in Revisions}

Matches(job, filter) ==
    \A f \in filter :
        f.key \in DOMAIN job.annotations /\ job.annotations[f.key] = f.value

NamesInOrder == <<"job-1", "job-2">>

RECURSIVE Listing(_, _, _)
Listing(js, filter, names) ==
    IF names = <<>> THEN <<>>
    ELSE LET n == Head(names) IN
         IF n \in DOMAIN js /\ Matches(js[n], filter)
         THEN <<js[n]>> \o Listing(js, filter, Tail(names))
         ELSE Listing(js, filter, Tail(names))

FindJobs(js, filter, start, limit) ==
    LET all == Listing(js, filter, NamesInOrder)
        total == Len(all)
        last == IF limit = 0 THEN total ELSE Min(total, start + limit)
    IN  [slice |-> IF start < last THEN SubSeq(all, start + 1, last) ELSE <<>>,
         total |-> total]

\* int32(total), for a total below 2^32: it wraps from 2^31 on
Int32(n) == IF n <= 2147483647 THEN n
            ELSE ((n - 2147483647) - 2147483647) - 2

\* ListResponse with a bug: Total is the length of the page
ListResponse_PageTotal(result, total) ==
    [Total |-> Int32(Len(result)),
     Result |-> [i \in 1..Len(result) |-> result[i]]]

\* res[i] = &result[i]; &v1.ListJobsResponse{Total: int32(total), Result: res}
ListResponse(result, total) ==
    [Total |-> Int32(total),
     Result |-> [i \in 1..Len(result) |-> result[i]]]

\* status.Error(codes.Internal, err.Error())
InternalErr(e) == [typ |-> "Internal", data |-> e.data]

\* what Find returns when it fails
FindFailed == [slice |-> <<>>, total |-> 0]

\* ListJobs(ctx, req): Find, and its result or its error handed on.
\* lastList also records (history) what Find returned.
ListJobs ==
    /\ \E filter \in Filters, start \in 0..MaxStart, limit \in 0..MaxLimit,
          ok \in BOOLEAN :
        LET found == IF ok THEN FindJobs(jobs, filter, start, limit)
                     ELSE FindFailed
        IN
        lastList' =
            <<[req |-> [filter |-> filter, start |-> start, limit |-> limit],
               findOK |-> ok,
               find |-> found,
               resp |-> IF ok THEN <<ListResponse(found.slice, found.total)>>
                        ELSE <<>>,
               err |-> IF ok THEN NilErr ELSE InternalErr(Err("find failed"))]>>
    /\ UNCHANGED <<inflight, jobs, stored, lastGet, hvars, rvars, cvars, lvars, prev>>

\* the stores that Jobs.Store calls can build
AllStores ==
    UNION {{js \in [D -> JobStatuses] : \A n \in D : js[n].name = n} :
            D \in SUBSET JobNames}

\* ListJobs is called on a store of any content
ListInit ==
    /\ hpc = "idle" /\ herr = NilErr /\ event = "none"
    /\ resp = NoResp /\ onErr = <<>>
    /\ pc = "idle" /\ jc = NoJc /\ repoCfg = NoCfg /\ tpl = NoTpl
    /\ err = NilErr /\ podspec = ZeroPodSpec /\ wg = 0 /\ pipe = 0
    /\ rpc = "idle" /\ nwritten = 0 /\ rterr = NilErr /\ rpend = {}
    /\ dpc = "idle" /\ consumed = 0 /\ dterr = NilErr /\ dpend = {}
    /\ firstFail = "none" /\ errWriters = {}
    /\ startCall = NoStart /\ ret = NoRet /\ trace = <<>> /\ prev = <<>>
    /\ inflight = <<>>
    /\ jobs \in AllStores
    /\ stored = [n \in DOMAIN jobs |-> [job |-> jobs[n], over |-> FALSE]]
    /\ lastGet = <<>> /\ lastList = <<>>
    /\ logs = <<>> /\ placing = <<>> /\ placed = <<>> /\ lastRead = <<>>

ListNext == ListJobs

ListSpec == ListInit /\ [][ListNext]_vars

JobsNext ==
    \/ OnUpdateEmit
    \/ OnUpdateDelivered
    \/ JobsStore
    \/ JobsGet

JobsSpec == Init /\ [][JobsNext]_vars

\* The emitter delivers every event it was given.
FairJobsSpec == JobsSpec /\ WF_vars(OnUpdateDelivered)

----------------------------------------------------------------------------
\* The Logs store

Blobs == SeqsUpTo(Bytes, MaxBlobLen)

\* Logs.Place(ctx, id, src) is called. An id that is in the store already
\* is refused with ErrAlreadyExists; otherwise the blob is written aside,
\* out of Read's sight, until src returns EOF. One Place runs at a time.
PlaceBegin ==
    /\ placing = <<>>
    /\ \E id \in LogIds, src \in Blobs :
        IF id \in DOMAIN logs
        THEN UNCHANGED placing
        ELSE placing' = <<[id |-> id, src |-> src, rest |-> src, written |-> <<>>]>>
    /\ UNCHANGED <<logs, placed, lastRead, hvars, rvars, cvars, jvars, prev>>

\* Place copies the next byte of src
CopyByte(p) ==
    [p EXCEPT !.rest = Tail(p.rest), !.written = Append(p.written, Head(p.rest))]

PlaceCopy ==
    /\ placing # <<>>
    /\ placing[1].rest # <<>>
    /\ placing' = <<CopyByte(placing[1])>>
    /\ UNCHANGED <<logs, placed, lastRead, hvars, rvars, cvars, jvars, prev>>

\* src returns EOF: the blob becomes readable and Place returns nil
Publish(ls, p) ==
    [i \in DOMAIN ls \cup {p.id} |-> IF i = p.id THEN p.written ELSE ls[i]]

PlaceReturn ==
    /\ placing # <<>>
    /\ placing[1].rest = <<>>
    /\ logs' = Publish(logs, placing[1])
    /\ placed' = [i \in DOMAIN placed \cup {placing[1].id} |->
                    IF i = placing[1].id THEN placing[1].src ELSE placed[i]]
    /\ placing' = <<>>
    /\ UNCHANGED <<lastRead, hvars, rvars, cvars, jvars, prev>>

\* ReadLog with a bug: a blob that is still being written can be read
ReadLog_Partial(ls, id) ==
    IF id \in DOMAIN ls
    THEN [id |-> id, found |-> TRUE, bytes |-> ls[id]]
    ELSE IF placing # <<>> /\ placing[1].id = id
    THEN [id |-> id, found |-> TRUE, bytes |-> placing[1].written]
    ELSE [id |-> id, found |-> FALSE, bytes |-> <<>>]

\* Logs.Read(ctx, id): the blob, or ErrNotFound when there is none or when
\* it is still being written
ReadLog(ls, id) ==
    IF id \in DOMAIN ls
    THEN [id |-> id, found |-> TRUE, bytes |-> ls[id]]
    ELSE [id |-> id, found |-> FALSE, bytes |-> <<>>]

\* lastRead also records (history) what Place had done when Read was called
LogsRead ==
    /\ \E id \in LogIds :
        lastRead' = <<[res |-> ReadLog(logs, id),
                       placeReturned |-> id \in DOMAIN placed,
                       placeRunning |-> placing # <<>> /\ placing[1].id = id]>>
    /\ UNCHANGED <<logs, placing, placed, hvars, rvars, cvars, jvars, prev>>

LogsNext ==
    \/ PlaceBegin
    \/ PlaceCopy
    \/ PlaceReturn
    \/ LogsRead

LogsSpec == Init /\ [][LogsNext]_vars

----------------------------------------------------------------------------
\* Claims about RunJob's compile step

\* both goroutines are running, or have run, and RunJob is at wg.Wait()
Compiling == pc = "wait"

\* C1: when the template executes without error and its output decodes
\* without error, both units finish, wg.Wait() is passed and RunJob goes on
\* to call Executor.Start.
C1_CompileReachesStart ==
    (Compiling /\ tpl.renderOK /\ tpl.decodeOK) ~> (pc = "start")

\* C2: if the template execution fails at once, the decoder still
\* terminates and RunJob returns a non-nil error.
C2_RenderFailureReturnsError ==
    (Compiling /\ ~tpl.renderOK /\ tpl.writes = <<>>)
        ~> (dpc = "done" /\ ret.done /\ ~IsNil(ret.err))

\* C3: if the decoder fails before the renderer has written all its output,
\* the renderer still finishes and RunJob returns.
C3_DecodeFailureUnblocksRender ==
    (Compiling /\ dpc \in {"store", "exit", "done"} /\ ~IsNil(dterr)
        /\ nwritten < Len(tpl.writes))
        ~> (rpc = "done" /\ ret.done)

\* C4: when both units fail, RunJob returns the failure that came first.
C4_FirstFailureWins ==
    (ret.done /\ rpc = "done" /\ dpc = "done"
        /\ ~IsNil(rterr) /\ ~IsNil(dterr))
        => (~IsNil(ret.err) /\ ret.err.cause = Err(firstFail))

----------------------------------------------------------------------------
\* Claims about the executor's callback

\* C5: every status reported through OnUpdate is eventually in the Jobs
\* store, where Jobs.Get finds it.
C5_UpdateIsStored ==
    \A s \in JobStatuses :
        (inflight = <<s>>)
            ~> (GetJob(jobs, s.name) = [name |-> s.name, found |-> TRUE, job |-> s])

----------------------------------------------------------------------------
\* Claims about the webhook handler

\* C6: when RunJob fails for a push event, the handler answers with an
\* error response that carries the failure's message.
C6_RunJobFailureIsAnswered ==
    (hpc = "done" /\ event = "push" /\ ret.done /\ ~IsNil(ret.err))
        => (resp.written /\ resp.code = StatusInternalServerError
            /\ resp.body = ret.err)

\* C7: an event of a kind the switch has no case for yields an
\* unhandled-event error, given to OnError and sent as the error response.
C7_UnhandledEventIsAnError ==
    (hpc = "done" /\ event \in Kinds \ HandledKinds)
        => /\ ~IsNil(herr)
           /\ herr.typ = "unhandled GitHub event"
           /\ herr.event = event
           /\ onErr = <<herr>>
           /\ resp.written
           /\ resp.code = StatusInternalServerError
           /\ resp.body = herr

C7_Witness ==
    hpc = "done" /\ event = "fork" /\ resp.written

\* C19: for a webhook event that fails (payload validation, parsing,
\* unhandled kind, or RunJob failing for a push event) OnError is called
\* exactly once, with that failure; for an event served without failure it
\* is not called.
C19_OnErrorOncePerFailure ==
    hpc = "done"
        => IF ~IsNil(herr) THEN onErr = <<herr>>
           ELSE IF event = "push" /\ ret.done /\ ~IsNil(ret.err)
           THEN onErr = <<ret.err>>
           ELSE onErr = <<>>

C19_Witness ==
    /\ hpc = "done" /\ event = "push" /\ ret.done /\ ~IsNil(ret.err)
    /\ Len(onErr) = 1

----------------------------------------------------------------------------
\* Claims about RunJob's results

\* C8: every non-nil error RunJob returns is wrapped with jc.String() and
\* comes with an empty job name.
C8_ErrorsAreWrapped ==
    (ret.done /\ ~IsNil(ret.err))
        => /\ ret.name = ""
           /\ ret.err.typ = "cannot handle push to"
           /\ ret.err.desc = <<jc.Owner, jc.Repo, jc.Revision>>
           /\ ~IsNil(ret.err.cause)

C8_Witness ==
    ret.done /\ ~IsNil(ret.err) /\ rpc = "done" /\ dpc = "done"
        /\ jc.Revision = "refs/heads/dev"

\* C9: Executor.Start is called with the decoded specification and the
\* annotations owner, repo, rev of the JobContext, and on success RunJob
\* returns the name Start returned.
C9_StartGetsDecodedSpec ==
    startCall.called
        => /\ startCall.spec = [from |-> tpl.writes,
                                ctx |-> <<jc.Owner, jc.Repo, jc.Revision>>]
           /\ startCall.annotations =
                [owner |-> jc.Owner, repo |-> jc.Repo, rev |-> jc.Revision]
           /\ (ret.done /\ IsNil(ret.err) => ret.name = startCall.name)

\* C14: compiling twice with the same template and the same JobContext
\* gives the same outcome, however the two goroutines are interleaved.
C14_CompileIsDeterministic ==
    (prev # <<>> /\ CompileDone) => Outcome = prev[1]

\* the steps of one RunJob call, in the order of the code
StepOrder ==
    <<"fetchConfig", "decodeConfig", "shouldRun", "fetchTemplate",
      "readTemplate", "parseTemplate", "compile", "start">>

\* C15: the steps of one RunJob call come in the order config fetch, config
\* decode, trigger decision, template fetch, compile, submit, each at most
\* once; Executor.Start is called only after both goroutines have finished
\* and only if every earlier step succeeded.
C15_StepsInOrderStartLast ==
    /\ Len(trace) <= Len(StepOrder)
    /\ \A i \in 1..Len(trace) : trace[i] = StepOrder[i]
    /\ startCall.called
        => /\ rpc = "done" /\ dpc = "done"
           /\ IsNil(rterr) /\ IsNil(dterr)

\* C16: the two goroutines never both write the same error variable while
\* they run concurrently.
C16_OwnResultSlots ==
    /\ Cardinality(errWriters) <= 1
    /\ ~(rpc = "store" /\ dpc = "store")

\* C17: no step of RunJob or of its goroutines writes to the Jobs store or
\* to the Logs store.
C17_RunJobLeavesStoresAlone ==
    [][(RunJobStep \/ RenderStep \/ DecodeStep)
        => UNCHANGED <<jobs, logs, placing>>]_vars

C17_Witness ==
    /\ pc = "returned" /\ startCall.called /\ IsNil(ret.err)
    /\ jobs = <<>> /\ logs = <<>>

\* C18: once the decoder has recorded its failure in err, the err read
\* after wg.Wait() is non-nil, and Executor.Start is never reached with a
\* podspec whose decode failed.
C18_DecodeFailureIsKept ==
    /\ (pc = "wait" /\ wg = 0 /\ ~IsNil(dterr)) => ~IsNil(err)
    /\ pc = "start" => IsNil(dterr)

\* C13: whenever ShouldRun returns true for a RepoConfig and a trigger,
\* TemplatePath returns a non-empty path.
C13_TemplatePathNonEmpty ==
    (pc = "fetchTemplate" /\ ShouldRun(repoCfg, "push"))
        => TemplatePath(repoCfg, "push") # ""

----------------------------------------------------------------------------
\* Claims about the Jobs store

\* C11: Store is an upsert by name with full overwrite: Get of a name
\* returns the record of the last Store for that name, whole, with nothing
\* of an earlier record in it; storing a record a second time changes
\* nothing; Get of a name never stored returns NotFound.
C11_StoreOverwritesByName ==
    /\ lastGet # <<>>
        => LET g == lastGet[1] IN
           IF g.stored = <<>>
           THEN ~g.res.found
           ELSE g.res.found /\ g.res.job = g.stored[1].job
    /\ \A job \in JobStatuses :
        StoreJob(StoreJob(jobs, job), job) = StoreJob(jobs, job)

C11_Witness ==
    /\ lastGet # <<>>
    /\ lastGet[1].stored # <<>>
    /\ lastGet[1].stored[1].over
    /\ lastGet[1].res.found

\* C12: Find's total is the number of stored records that match all
\* filters, whatever start and limit are; with limit = 0 the page holds every
\* match from start on, with limit = k at most k of them; ListJobs returns
\* Find's page in Find's order and Find's total, and when Find fails an
\* Internal error and no response.
C12_FindPagesAndListJobs ==
    lastList # <<>>
        => LET l == lastList[1]
               matching == {n \in DOMAIN jobs :
                               \A f \in l.req.filter :
                                   jobs[n].annotations[f.key] = f.value}
               total == Cardinality(matching)
               rest == IF l.req.start < total THEN total - l.req.start ELSE 0
               page == l.find.slice
               whole == FindJobs(jobs, l.req.filter, 0, 0).slice
           IN  IF l.findOK
               THEN /\ l.find.total = total
                    /\ Len(page) = IF l.req.limit = 0 THEN rest
                                   ELSE Min(l.req.limit, rest)
                    /\ \A i \in 1..Len(page) : page[i] = whole[l.req.start + i]
                    /\ {whole[i] : i \in 1..Len(whole)} = {jobs[n] : n \in matching}
                    /\ Len(whole) = total
                    /\ IsNil(l.err)
                    /\ l.resp = <<[Total |-> total, Result |-> page]>>
               ELSE /\ l.resp = <<>>
                    /\ l.err.typ = "Internal"

C12_Witness ==
    /\ lastList # <<>>
    /\ lastList[1].findOK
    /\ lastList[1].req.limit = 1
    /\ lastList[1].req.start = 1
    /\ lastList[1].find.total = 2
    /\ Len(lastList[1].resp[1].Result) = 1

----------------------------------------------------------------------------
\* Claims about the Logs store

\* C10: Read(id) returns NotFound before any Place(id, ...) and while one is
\* in progress; once Place has returned, Read(id) yields exactly the bytes
\* that were placed.
C10_ReadSeesOnlyPlacedLogs ==
    lastRead # <<>>
        => LET r == lastRead[1] IN
           IF r.placeReturned
           THEN r.res.found /\ r.res.bytes = placed[r.res.id]
           ELSE ~r.res.found

C10_Witness ==
    /\ lastRead # <<>>
    /\ lastRead[1].placeReturned
    /\ lastRead[1].res.found
    /\ Len(lastRead[1].res.bytes) = MaxBlobLen

====
